---- MODULE Spec2Model ----
(***************************************************************************)
(* Flight-Sim-CI-Pipeline: the run loop of sim/cli.py, the simulated       *)
(* command channel of sim/rpc.py (UDP sender, background receiver, the     *)
(* PriorityQueue of pending deliveries), the integrator of sim/physics.py, *)
(* the scenario generators of sim/scenarios.py and the telemetry recorder  *)
(* of sim/telemetry.py.                                                    *)
(*                                                                         *)
(* Numbers are fixed point: thrust in thousandths, pitch in degrees,       *)
(* positions, velocities, accelerations and wind in tenths of the SI unit, *)
(* time in seconds (the run is modelled at hz = 1, so dt_s is one second   *)
(* and the tick index equals the scenario time).  The monotonic clock is   *)
(* an integer that the environment advances; two reads may see the same    *)
(* value (a clock of coarse resolution).  Non-finite floats are the        *)
(* sentinels NaN, PosInf and NegInf.                                       *)
(***************************************************************************)
EXTENDS Integers, Sequences, FiniteSets, TLC

\* ---------------------------------------------------------------- bounds
MaxSteps   == 2      \* largest number of ticks of a run
MaxClock   == 2      \* the monotonic clock advances at most this far
MaxInject  == 1      \* datagrams a foreign local process sends to the port
MaxChain   == 2      \* steps chained in a direct use of the integrator
MaxRows    == 2      \* data rows of a CSV file given to compare_csvs
MaxDatagrams == 3    \* datagrams sent to a server that is used on its own

\* ------------------------------------------------------- float sentinels
NaN    == 1999999991
PosInf == 1999999992
NegInf == 1999999993
FMax   == 1000000000   \* stands for sys.float_info.max, 1.797e308
NonNum == 1999999994   \* a JSON value float() rejects (a string, null, a list)
Absent == 1999999995   \* the key is not in the object

Max(a, b) == IF a >= b THEN a ELSE b
Min(a, b) == IF a <= b THEN a ELSE b

\* ------------------------------------------------------- seeded streams
\* random.Random(seed).random() scaled to 0..9: a deterministic function
\* of the seed and of the number of values already drawn.
Seeds == {123}
Uniform10(s, k) == (s + 3 * k + 5) % 10
\* numpy default_rng(seed).normal(0, 1) in tenths: deterministic in (seed, k)
Normal10(s, k) == ((5 * s + 3 * k) % 7) - 3

\* ---------------------------------------------------------------- payloads
\* A datagram's payload after json.loads: an object with (possibly missing,
\* possibly non-numeric) thrust_01 and pitch_deg, a JSON array, or bytes
\* that do not decode.  None is poll_next's "nothing".
Obj(th, pd) == [kind |-> "object", thrust_01 |-> th, pitch_deg |-> pd]
JList       == [kind |-> "list", thrust_01 |-> Absent, pitch_deg |-> Absent]
Garbage     == [kind |-> "garbage", thrust_01 |-> Absent, pitch_deg |-> Absent]
None        == [kind |-> "none", thrust_01 |-> Absent, pitch_deg |-> Absent]

\* what a foreign sender may put on the wire
InjectedPayloads ==
    { Garbage, JList, Obj(NonNum, 0), Obj(Absent, 5), Obj(PosInf, 0), Obj(NaN, 0),
      Obj(500, Absent), Obj(NonNum, Absent) }

\* a well-formed command packet: an object with numeric thrust_01 and pitch_deg
IsCommand(m) ==
    /\ m.kind = "object"
    /\ m.thrust_01 \notin {NonNum, Absent}
    /\ m.pitch_deg \notin {NonNum, Absent}

\* ------------------------------------------------- heapq (CPython _heapq)
\* Entries are the tuples (apply_time, msg); id and arr are bookkeeping of
\* the model (the datagram's identity and the clock value of its arrival)
\* and take no part in comparisons.

\* (t1, m1) < (t2, m2) on Python tuples: "lt", "ge", or "err" when the times
\* tie and the payloads differ (dict < dict raises TypeError).
TupleLt(a, b) ==
    IF a.t < b.t THEN "lt"
    ELSE IF a.t > b.t THEN "ge"
    ELSE IF a.msg = b.msg THEN "ge"
    ELSE "err"

Swap(h, i, j) == [h EXCEPT ![i] = h[j], ![j] = h[i]]

\* siftdown(heap, startpos, pos), positions 1-based; swaps in place, so an
\* entry stays where the failing comparison found it.
RECURSIVE Siftdown(_, _, _)
Siftdown(h, startpos, pos) ==
    IF pos > startpos
    THEN LET parentpos == pos \div 2
             c == TupleLt(h[pos], h[parentpos])
         IN  IF c = "err" THEN [heap |-> h, err |-> TRUE]
             ELSE IF c = "lt" THEN Siftdown(Swap(h, pos, parentpos), startpos, parentpos)
             ELSE [heap |-> h, err |-> FALSE]
    ELSE [heap |-> h, err |-> FALSE]

\* siftup(heap, pos): bubble the smaller child up to a leaf, then siftdown.
RECURSIVE SiftupFrom(_, _, _)
SiftupFrom(h, startpos, pos) ==
    IF 2 * pos <= Len(h)
    THEN LET left == 2 * pos
             c == IF left + 1 <= Len(h) THEN TupleLt(h[left], h[left + 1]) ELSE "lt"
             childpos == IF c = "lt" THEN left ELSE left + 1
         IN  IF c = "err" THEN [heap |-> h, err |-> TRUE]
             ELSE SiftupFrom(Swap(h, childpos, pos), startpos, childpos)
    ELSE Siftdown(h, startpos, pos)

Siftup(h, pos) == SiftupFrom(h, pos, pos)

\* heappush: append, then siftdown; on TypeError the item is already in the list
heappush(h, item) == Siftdown(Append(h, item), 1, Len(h) + 1)

\* a pop that hands out the most recently appended item (list.pop)
heappop_lifo(h) ==
    [heap |-> SubSeq(h, 1, Len(h) - 1), err |-> FALSE, item |-> h[Len(h)]]

\* heappop of a non-empty heap: [heap, err, item]; on TypeError the smallest
\* item has left the list and is handed to nobody
heappop(h) ==
    LET n == Len(h)
        lastelt == h[n]
        rest == SubSeq(h, 1, n - 1)
    IN  IF n = 1 THEN [heap |-> rest, err |-> FALSE, item |-> lastelt]
        ELSE LET r == Siftup([rest EXCEPT ![1] = lastelt], 1)
             IN  [heap |-> r.heap, err |-> r.err, item |-> h[1]]

\* ------------------------------------------------------------- scenarios
\* takeoff_landing(seed, wind = 0.0): the four-phase schedule, t in seconds
takeoff_landing(t) ==
    IF 2 * t < 7 THEN [thrust |-> 250 + (1300 * t) \div 7, pitch |-> 0, wind |-> 0]
    ELSE IF t < 8 THEN [thrust |-> 850, pitch |-> 10, wind |-> 0]
    ELSE IF t < 12 THEN [thrust |-> 700, pitch |-> 4, wind |-> 0]
    ELSE [thrust |-> 0, pitch |-> -20, wind |-> 0]

\* wind_gusts(seed, gust_std = 2.0): the k-th call draws the k-th normal value
wind_gusts(s, k) == [thrust |-> 600, pitch |-> 2, wind |-> 2 * Normal10(s, k)]

\* gps_jitter(seed, std = 1.5) returns the standard deviation, in tenths
gps_jitter == 15

KnownScenarios == {"takeoff_landing", "wind_gusts", "gps_jitter"}

\* control_fn(t) of the scenario at tick k (t = k * dt_s = k)
control_fn(sc, s, k) ==
    IF sc = "wind_gusts" THEN wind_gusts(s, k) ELSE takeoff_landing(k)

gps_jitter_std(sc) == IF sc = "gps_jitter" THEN gps_jitter ELSE 0

\* --------------------------------------------------------------- physics
max_thrust_accel == 120     \* 12.0 m/s^2
gravity          == 98      \* 9.81 m/s^2
drag_cap         == 500     \* 50.0 m/s^2
lift_cap         == 200     \* 20.0 m/s^2
speed_cap        == 3000    \* 300.0 m/s

\* sin and cos of an angle in degrees, in thousandths (small-angle series)
SinMilli(d) == (1745 * d) \div 100
CosMilli(d) == 1000 - (152 * d * d) \div 1000

RECURSIVE IsqrtIn(_, _, _)
IsqrtIn(n, lo, hi) ==
    IF lo >= hi THEN lo
    ELSE LET mid == (lo + hi + 1) \div 2
         IN  IF mid * mid <= n THEN IsqrtIn(n, mid, hi) ELSE IsqrtIn(n, lo, mid - 1)
\* math.hypot(x, y), rounded down
Hypot(x, y) == IsqrtIn(x * x + y * y, 0, 46340)

Clamp(lo, hi, x) == Max(lo, Min(hi, x))

initial_state ==
    [time_s |-> 0, pos_x_m |-> 0, pos_y_m |-> 0, vel_x_mps |-> 0, vel_y_mps |-> 0,
     pitch_deg |-> 0]

\* max(0.0, min(1.0, thrust_01)): Python's min and max keep their first
\* argument when the comparison with a NaN is false
ClampThrust(th) ==
    IF th \in {NaN, PosInf} THEN 1000
    ELSE IF th = NegInf THEN 0
    ELSE Clamp(0, 1000, th)

\* math.cos of an infinite angle raises ValueError
StepRaises(pitch) == pitch \in {PosInf, NegInf}

\* the altitude integrated without the ground clamp
ground_unclamped(y, dy) == IF y \in {NaN, PosInf, NegInf} THEN y ELSE y + dy

\* max(0.0, pos_y_m + vel_y_mps * dt_s): Python's max keeps its first
\* argument, 0.0, unless the second compares greater, so a NaN gives 0.0
ground_clamp(y, dy) ==
    IF y \in {NaN, NegInf} THEN 0
    ELSE IF y = PosInf THEN PosInf
    ELSE Max(0, y + dy)

\* SimpleAircraft2D.step(state, control, env, dt_s), dt_s in whole seconds
step_dt(st, thrust_01, pitch_deg, wind, dt) ==
    LET thrust == ClampThrust(thrust_01)
        nanp == (pitch_deg = NaN)
        p == IF nanp THEN 0 ELSE pitch_deg
        thrust_ax == (max_thrust_accel * thrust * CosMilli(p)) \div 1000000
        thrust_ay == (max_thrust_accel * thrust * SinMilli(p)) \div 1000000
        rel_vx == st.vel_x_mps - wind
        rel_vy == st.vel_y_mps
        speed == Hypot(rel_vx, rel_vy)
        sp2 == rel_vx * rel_vx + rel_vy * rel_vy
        drag_acc_mag == Min((55 * sp2) \div 1000000, drag_cap)
        drag_ax == IF speed > 0 THEN 0 - (drag_acc_mag * rel_vx) \div speed ELSE 0
        drag_ay == IF speed > 0 THEN 0 - (drag_acc_mag * rel_vy) \div speed ELSE 0
        lift_acc == Min((8 * (sp2 \div 100) * Max(SinMilli(p), 0)) \div 10000, lift_cap)
        ax == thrust_ax + drag_ax
        damping_ay == 0 - st.vel_y_mps
        ay == thrust_ay + drag_ay + lift_acc - gravity + damping_ay
        \* a NaN acceleration makes min(300.0, nan) return 300.0
        new_vx == IF nanp THEN speed_cap
                  ELSE Clamp(0 - speed_cap, speed_cap, st.vel_x_mps + ax * dt)
        new_vy == IF nanp THEN speed_cap
                  ELSE Clamp(0 - speed_cap, speed_cap, st.vel_y_mps + ay * dt)
    IN  [time_s |-> st.time_s + dt,
         pos_x_m |-> st.pos_x_m + st.vel_x_mps * dt,
         pos_y_m |-> ground_clamp(st.pos_y_m, st.vel_y_mps * dt),
         vel_x_mps |-> new_vx,
         vel_y_mps |-> new_vy,
         pitch_deg |-> pitch_deg]

\* the run loop's call, dt_s = 1 / hz with hz = 1
step(st, thrust_01, pitch_deg, wind) == step_dt(st, thrust_01, pitch_deg, wind, 1)

\* ------------------------------------------------------------- telemetry
Columns ==
    {"time_s", "pos_x_m", "pos_y_m", "vel_x_mps", "vel_y_mps", "thrust_01",
     "pitch_deg", "wind_x_mps"}

\* float(row[key]) + float(rng.normal(0.0, std)), the k-th value of the
\* recorder's generator; a non-finite position stays what it is
jittered(v, std, s, k) ==
    IF v \in {NaN, PosInf, NegInf} THEN v ELSE v + (std * Normal10(s, k)) \div 10

\* the row record stores when k normal values were drawn before: jitter on
\* pos_x_m, then on pos_y_m, each if the row has the key, and only with a
\* seeded generator and a positive standard deviation
jitter_row(row, std, seeded, s, k) ==
    IF seeded /\ std > 0
    THEN LET ky == IF row["pos_x_m"] # Absent THEN k + 1 ELSE k
         IN  [row EXCEPT
                !["pos_x_m"] = IF @ # Absent THEN jittered(@, std, s, k) ELSE @,
                !["pos_y_m"] = IF @ # Absent THEN jittered(@, std, s, ky) ELSE @]
    ELSE row

\* float(row[key]) of a value that is no number raises, before the append
record_raises(row, std, seeded) ==
    /\ seeded /\ std > 0
    /\ row["pos_x_m"] = NonNum \/ row["pos_y_m"] = NonNum

\* a record that writes the jitter into the dict it was given
record_in_place(row, std, seeded, s, k) ==
    [stored |-> jitter_row(row, std, seeded, s, k),
     caller |-> jitter_row(row, std, seeded, s, k)]

\* TelemetryRecorder.record(row): the row appended to _rows and the caller's
\* dict afterwards (row = dict(row) copies before the first assignment)
record_call(row, std, seeded, s, k) ==
    [stored |-> jitter_row(row, std, seeded, s, k), caller |-> row]

\* the run loop's tel.record: the recorder was made with rng_seed = seed
record(row, sc, s, k) == record_call(row, gps_jitter_std(sc), TRUE, s, k).stored

\* number of values record takes from the recorder's generator
record_draws(sc) == IF gps_jitter_std(sc) > 0 THEN 2 ELSE 0

\* np.nan_to_num: NaN becomes 0.0, an infinity the largest finite float of its sign
nan_to_num(x) ==
    IF x = NaN THEN 0
    ELSE IF x = PosInf THEN FMax
    ELSE IF x = NegInf THEN 0 - FMax
    ELSE x

\* float addition on finite values: an operand of magnitude FMax absorbs a
\* small one, two of them overflow
FAdd(a, b) ==
    IF a \in {PosInf, NegInf} THEN a
    ELSE IF a = FMax THEN (IF b = FMax THEN PosInf ELSE IF b = 0 - FMax THEN 0 ELSE a)
    ELSE IF a = 0 - FMax THEN (IF b = 0 - FMax THEN NegInf ELSE IF b = FMax THEN 0 ELSE a)
    ELSE IF b \in {FMax, 0 - FMax} THEN b
    ELSE a + b

\* np.nan_to_num(df[col]).sum() over the first n rows
RECURSIVE ColumnSum(_, _, _)
ColumnSum(rs, col, n) ==
    IF n = 0 THEN 0 ELSE FAdd(ColumnSum(rs, col, n - 1), nan_to_num(rs[n][col]))

\* pd.api.types.is_numeric_dtype(df[col]): a column of Python floats is float64
is_numeric_dtype(rs, col) == \A k \in 1..Len(rs) : rs[k][col] # NonNum

\* a save whose checksum row keeps the summed time instead of the sentinel
save_csv_unmarked(rs) ==
    IF Len(rs) = 0 THEN << >>
    ELSE Append(rs, [c \in Columns |-> ColumnSum(rs, c, Len(rs))])

\* the rows save_csv writes: the data rows and, unless there are none, the
\* checksum row
save_csv(rs) ==
    IF Len(rs) = 0 THEN << >>
    ELSE LET sums == [c \in Columns |->
                        IF is_numeric_dtype(rs, c) THEN ColumnSum(rs, c, Len(rs))
                        ELSE rs[Len(rs)][c]]
         IN  Append(rs, [sums EXCEPT !["time_s"] = -1])

\* ----------------------------------------------------------------- state
VARIABLES
    cfg,        \* run_sim's arguments: scenario, seed, loss_p (tenths), latency_ms, steps
    clock,      \* time.monotonic()
    net,        \* datagrams in the server socket's receive buffer, oldest first
    next_id,    \* identity of the next datagram (bookkeeping)
    injected,   \* datagrams sent by a foreign process so far
    rx_pc,      \* the receiver thread's position in _rx_loop
    rx_cur,     \* the entry the receiver is working on
    rand_idx,   \* values drawn from UdpServer._rand so far
    pending,    \* UdpServer._pending.queue, the heap list
    rx_recv_n,  \* datagrams recvfrom has returned (bookkeeping)
    rx_bad_n,   \* of those, the ones json.loads rejected (bookkeeping)
    draws,      \* the loss draw of every decoded datagram, by id (bookkeeping)
    inserted,   \* ids of the entries the receiver has put (bookkeeping)
    pc,         \* the run loop's position in run_sim
    i,          \* tick index
    now,        \* poll_next's now
    held,       \* the entry poll_next took out and has not returned or put back
    msg,        \* poll_next's result in this tick
    last_applied_thrust,
    last_applied_pitch,
    state,      \* AircraftState
    rows,       \* TelemetryRecorder._rows
    tel_idx,    \* values drawn from TelemetryRecorder._rng so far
    file,       \* the rows of the saved CSV
    rc,         \* run_sim's return value, -1 while it has not returned
    err,        \* the exception that ended run_sim, "none" otherwise
    returned,   \* entries poll_next has returned, in order (bookkeeping)
    polled,     \* poll_next's result of every finished tick (bookkeeping)
    unreturned, \* at the end of every finished tick, the client's commands
                \* sent and not returned by poll_next so far (bookkeeping)
    stop_pc,    \* UdpServer.stop()'s position: not called, _stop set, socket
                \* closed, returned
    call,       \* a direct call of a library function: its name and arguments
    ret         \* what that call returned or raised

cfgVars == <<cfg>>
envVars == <<clock, net, next_id, injected>>
rxVars  == <<rx_pc, rx_cur, rand_idx, pending, rx_recv_n, rx_bad_n, draws, inserted>>
runVars == <<pc, i, now, held, msg, last_applied_thrust, last_applied_pitch, state,
             rows, tel_idx, file, rc, err, returned, polled, unreturned>>
apiVars == <<stop_pc, call, ret>>
vars == <<cfg, clock, net, next_id, injected, rx_pc, rx_cur, rand_idx, pending,
          rx_recv_n, rx_bad_n, draws, inserted, pc, i, now, held, msg,
          last_applied_thrust, last_applied_pitch, state, rows, tel_idx, file,
          rc, err, returned, polled, unreturned, stop_pc, call, ret>>

NoEntry == [t |-> 0, msg |-> None, id |-> 0, arr |-> 0]
NoCall == [op |-> "none"]
NoRet == [kind |-> "none"]

Scenarios == KnownScenarios \cup {"aerobatics"}
LossPs    == {0, 5}          \* loss_p 0.0 and 0.5
Latencies == {-1, 0, 1}      \* latency_ms, in clock units

\* a latency that is not clamped at zero
latency_raw(c) == c.latency_ms

\* latency_s = max(0.0, float(latency_ms) / 1000.0)
latency_s(c) == Max(0, c.latency_ms)

\* everything but run_sim's arguments and the library call, before run_sim
\* has done anything
AtStart ==
    /\ clock = 0
    /\ net = << >>
    /\ next_id = 1
    /\ injected = 0
    /\ rx_pc = "unstarted"
    /\ rx_cur = NoEntry
    /\ rand_idx = 0
    /\ pending = << >>
    /\ rx_recv_n = 0
    /\ rx_bad_n = 0
    /\ draws = << >>
    /\ inserted = {}
    /\ pc = "start"
    /\ i = 0
    /\ now = 0
    /\ held = NoEntry
    /\ msg = None
    /\ last_applied_thrust = 0
    /\ last_applied_pitch = 0
    /\ state = initial_state
    /\ rows = << >>
    /\ tel_idx = 0
    /\ file = << >>
    /\ rc = -1
    /\ err = "none"
    /\ returned = << >>
    /\ polled = << >>
    /\ unreturned = << >>
    /\ stop_pc = "idle"

Init ==
    /\ cfg \in [scenario : Scenarios, seed : Seeds, loss_p : LossPs,
                latency_ms : Latencies, steps : 0..MaxSteps]
    /\ AtStart
    /\ call = NoCall
    /\ ret = NoRet

\* ----------------------------------------------------------- environment
\* time passes (also the run loop's best-effort sleep); the passing is taken
\* when a thread is about to read the clock, the only place it shows
ClockTick ==
    /\ UNCHANGED apiVars
    /\ pc = "poll_now" \/ rx_pc = "stamp"
    /\ clock < MaxClock
    /\ clock' = clock + 1
    /\ UNCHANGED <<cfg, net, next_id, injected>>
    /\ UNCHANGED rxVars
    /\ UNCHANGED runVars

\* another local process sends a datagram to the server's port; it lands in
\* the socket buffer before or after any of the client's datagrams
Inject ==
    /\ UNCHANGED apiVars
    /\ (pc = "send" /\ i = 0) \/ pc = "poll_now"
    /\ injected < MaxInject
    /\ \E p \in InjectedPayloads :
         net' = Append(net, [payload |-> p, id |-> next_id])
    /\ next_id' = next_id + 1
    /\ injected' = injected + 1
    /\ UNCHANGED <<cfg, clock>>
    /\ UNCHANGED rxVars
    /\ UNCHANGED runVars

\* ------------------------------------------------- receiver, _rx_loop
\* a loop that does not look at _stop and survives the closed socket
rx_stays(sp) == FALSE

\* the loop is left: "while not self._stop.is_set()" finds the event set, or
\* recvfrom on the closed socket raises OSError and the handler breaks
rx_leaves(sp) == sp # "idle"

\* where "continue" and the end of the loop body lead: back into recvfrom,
\* or out of the loop
LoopHead(sp) == IF rx_leaves(sp) THEN "exited" ELSE "recv"

\* recvfrom returns a datagram; json.loads; the loss draw.  A payload that
\* does not decode raises before the draw and the handler discards it.
\* recvfrom was entered while _stop was clear and the socket is still open.
RxRecv ==
    /\ UNCHANGED apiVars
    /\ rx_pc = "recv"
    /\ stop_pc \in {"idle", "set"}
    /\ net # << >>
    /\ net' = Tail(net)
    /\ rx_recv_n' = rx_recv_n + 1
    /\ LET d == Head(net)
       IN  IF d.payload.kind = "garbage"
           THEN /\ rx_bad_n' = rx_bad_n + 1
                /\ rx_pc' = LoopHead(stop_pc)
                /\ UNCHANGED <<rx_cur, rand_idx, draws>>
           ELSE /\ rand_idx' = rand_idx + 1
                /\ rx_bad_n' = rx_bad_n
                /\ draws' = Append(draws, [id |-> d.id, value |-> Uniform10(cfg.seed, rand_idx)])
                /\ IF Uniform10(cfg.seed, rand_idx) < cfg.loss_p
                   THEN /\ rx_pc' = LoopHead(stop_pc)
                        /\ UNCHANGED rx_cur
                   ELSE /\ rx_pc' = "stamp"
                        /\ rx_cur' = [t |-> 0, msg |-> d.payload, id |-> d.id, arr |-> 0]
    /\ UNCHANGED <<cfg, clock, next_id, injected, pending, inserted>>
    /\ UNCHANGED runVars

\* apply_time = time.monotonic() + latency_s
RxStamp ==
    /\ UNCHANGED apiVars
    /\ rx_pc = "stamp"
    /\ rx_cur' = [rx_cur EXCEPT !.t = clock + latency_s(cfg), !.arr = clock]
    /\ rx_pc' = "put"
    /\ UNCHANGED cfgVars
    /\ UNCHANGED envVars
    /\ UNCHANGED <<rand_idx, pending, rx_recv_n, rx_bad_n, draws, inserted>>
    /\ UNCHANGED runVars

\* self._pending.put((apply_time, msg)); a TypeError of the heap's
\* comparison is swallowed by "except Exception: continue"
RxPut ==
    /\ UNCHANGED apiVars
    /\ rx_pc = "put"
    /\ pending' = heappush(pending, rx_cur).heap
    /\ inserted' = inserted \cup {rx_cur.id}
    /\ rx_cur' = NoEntry
    /\ rx_pc' = LoopHead(stop_pc)
    /\ UNCHANGED cfgVars
    /\ UNCHANGED envVars
    /\ UNCHANGED <<rand_idx, rx_recv_n, rx_bad_n, draws>>
    /\ UNCHANGED runVars

\* --------------------------------------------------- run loop, run_sim
\* a lookup whose else branch falls back to a default scenario
scenario_fallback(sc) == TRUE

\* the if / elif chain on the scenario name finds a branch
scenario_known(sc) == sc \in KnownScenarios

\* the scenario is looked up; an unknown one is reported and run_sim returns
\* 2.  Otherwise the recorder, the server and the client are made and the
\* receiver thread is started.
Start ==
    /\ UNCHANGED apiVars
    /\ pc = "start"
    /\ IF ~scenario_known(cfg.scenario)
       THEN /\ pc' = "done"
            /\ rc' = 2
            /\ UNCHANGED rx_pc
       ELSE /\ pc' = IF cfg.steps > 0 THEN "send" ELSE "save"
            /\ rc' = rc
            /\ rx_pc' = "recv"
    /\ UNCHANGED cfgVars
    /\ UNCHANGED envVars
    /\ UNCHANGED <<rx_cur, rand_idx, pending, rx_recv_n, rx_bad_n, draws, inserted>>
    /\ UNCHANGED <<i, now, held, msg, last_applied_thrust, last_applied_pitch, state,
                   rows, tel_idx, file, err, returned, polled, unreturned>>

\* thrust, pitch, wind = control_fn(t); client.send(thrust, pitch)
Send ==
    /\ UNCHANGED apiVars
    /\ pc = "send"
    /\ LET c == control_fn(cfg.scenario, cfg.seed, i)
       IN  net' = Append(net, [payload |-> Obj(c.thrust, c.pitch), id |-> next_id])
    /\ next_id' = next_id + 1
    /\ pc' = "poll_now"
    /\ UNCHANGED <<cfg, clock, injected>>
    /\ UNCHANGED rxVars
    /\ UNCHANGED <<i, now, held, msg, last_applied_thrust, last_applied_pitch, state,
                   rows, tel_idx, file, rc, err, returned, polled, unreturned>>

\* poll_next: now = time.monotonic()
PollNow ==
    /\ UNCHANGED apiVars
    /\ pc = "poll_now"
    /\ now' = clock
    /\ pc' = "poll_get"
    /\ UNCHANGED cfgVars
    /\ UNCHANGED envVars
    /\ UNCHANGED rxVars
    /\ UNCHANGED <<i, held, msg, last_applied_thrust, last_applied_pitch, state,
                   rows, tel_idx, file, rc, err, returned, polled, unreturned>>

\* poll_next: get_nowait(); queue.Empty gives None, a due entry is returned,
\* an entry not yet due is kept for the put-back.  A TypeError of the heap's
\* comparison is not caught by "except queue.Empty" and leaves run_sim.
PollGet ==
    /\ UNCHANGED apiVars
    /\ pc = "poll_get"
    /\ IF pending = << >>
       THEN /\ msg' = None
            /\ pc' = "apply"
            /\ UNCHANGED <<pending, held, err, returned>>
       ELSE LET r == heappop(pending)
            IN  /\ pending' = r.heap
                /\ IF r.err
                   THEN /\ pc' = "crashed"
                        /\ err' = "TypeError"
                        /\ UNCHANGED <<msg, held, returned>>
                   ELSE IF r.item.t <= now
                   THEN /\ msg' = r.item.msg
                        /\ returned' = Append(returned, r.item)
                        /\ pc' = "apply"
                        /\ UNCHANGED <<held, err>>
                   ELSE /\ held' = r.item
                        /\ pc' = "poll_put"
                        /\ UNCHANGED <<msg, err, returned>>
    /\ UNCHANGED cfgVars
    /\ UNCHANGED envVars
    /\ UNCHANGED <<rx_pc, rx_cur, rand_idx, rx_recv_n, rx_bad_n, draws, inserted>>
    /\ UNCHANGED <<i, now, last_applied_thrust, last_applied_pitch, state, rows,
                   tel_idx, file, rc, polled, unreturned>>

\* poll_next: self._pending.put((apply_time, msg)); return None
PollPut ==
    /\ UNCHANGED apiVars
    /\ pc = "poll_put"
    /\ LET r == heappush(pending, held)
       IN  /\ pending' = r.heap
           /\ IF r.err
              THEN /\ pc' = "crashed"
                   /\ err' = "TypeError"
                   /\ UNCHANGED msg
              ELSE /\ msg' = None
                   /\ pc' = "apply"
                   /\ UNCHANGED err
    /\ held' = NoEntry
    /\ UNCHANGED cfgVars
    /\ UNCHANGED envVars
    /\ UNCHANGED <<rx_pc, rx_cur, rand_idx, rx_recv_n, rx_bad_n, draws, inserted>>
    /\ UNCHANGED <<i, now, last_applied_thrust, last_applied_pitch, state, rows,
                   tel_idx, file, rc, returned, polled, unreturned>>

\* the ticks whose generated command has this payload
GenTicks(m) ==
    {g \in 1..MaxSteps :
        m = Obj(control_fn(cfg.scenario, cfg.seed, g - 1).thrust,
                control_fn(cfg.scenario, cfg.seed, g - 1).pitch)}

\* commands client.send has handed to sendto, and those of them poll_next
\* has returned
SentCount == next_id - 1 - injected
ReturnedCount ==
    Cardinality({k \in DOMAIN returned : GenTicks(returned[k].msg) # {}})
Unreturned == SentCount - ReturnedCount

\* float(msg.get(key, last)): the value of the key, last when it is missing
GetOrLast(m, key, last) == IF m[key] = Absent THEN last ELSE m[key]

\* the exception the rest of the tick raises for this poll result, or "none":
\* msg.get on a value that is not a dict, float() of a non-number, math.cos
\* of an infinite pitch
TickError(m, last_thrust, last_pitch) ==
    IF m = None THEN (IF StepRaises(last_pitch) THEN "ValueError" ELSE "none")
    ELSE IF m.kind # "object" THEN "AttributeError"
    ELSE IF GetOrLast(m, "thrust_01", last_thrust) = NonNum THEN "ValueError"
    ELSE IF GetOrLast(m, "pitch_deg", last_pitch) = NonNum THEN "ValueError"
    ELSE IF StepRaises(GetOrLast(m, "pitch_deg", last_pitch)) THEN "ValueError"
    ELSE "none"

\* a run loop that falls back to zero thrust when nothing was delivered
AppliedThrustZero(m, last) == IF m = None THEN 0 ELSE GetOrLast(m, "thrust_01", last)

\* neutral hold or the delivered command
AppliedThrust(m, last) == IF m = None THEN last ELSE GetOrLast(m, "thrust_01", last)
AppliedPitch(m, last) == IF m = None THEN last ELSE GetOrLast(m, "pitch_deg", last)

\* the rest of the tick: choose the applied command, integrate, record
Apply ==
    /\ UNCHANGED apiVars
    /\ pc = "apply"
    /\ LET e == TickError(msg, last_applied_thrust, last_applied_pitch)
           applied_thrust == AppliedThrust(msg, last_applied_thrust)
           applied_pitch == AppliedPitch(msg, last_applied_pitch)
           wind == control_fn(cfg.scenario, cfg.seed, i).wind
           st == step(state, applied_thrust, applied_pitch, wind)
           row == [time_s |-> st.time_s, pos_x_m |-> st.pos_x_m, pos_y_m |-> st.pos_y_m,
                   vel_x_mps |-> st.vel_x_mps, vel_y_mps |-> st.vel_y_mps,
                   thrust_01 |-> applied_thrust, pitch_deg |-> applied_pitch,
                   wind_x_mps |-> wind]
       IN  IF e # "none"
           THEN /\ pc' = "crashed"
                /\ err' = e
                /\ UNCHANGED <<i, last_applied_thrust, last_applied_pitch, state, rows,
                               tel_idx, polled, unreturned>>
           ELSE /\ last_applied_thrust' = applied_thrust
                /\ last_applied_pitch' = applied_pitch
                /\ state' = st
                /\ rows' = Append(rows, record(row, cfg.scenario, cfg.seed, tel_idx))
                /\ tel_idx' = tel_idx + record_draws(cfg.scenario)
                /\ polled' = Append(polled, msg)
                /\ unreturned' = Append(unreturned, Unreturned)
                /\ i' = i + 1
                /\ pc' = IF i + 1 < cfg.steps THEN "send" ELSE "save"
                /\ UNCHANGED err
    /\ UNCHANGED cfgVars
    /\ UNCHANGED envVars
    /\ UNCHANGED rxVars
    /\ UNCHANGED <<now, held, msg, file, rc, returned>>

\* tel.save_csv(out_csv); without a golden file run_sim returns 0
Save ==
    /\ UNCHANGED apiVars
    /\ pc = "save"
    /\ file' = save_csv(rows)
    /\ rc' = 0
    /\ pc' = "done"
    /\ UNCHANGED cfgVars
    /\ UNCHANGED envVars
    /\ UNCHANGED rxVars
    /\ UNCHANGED <<i, now, held, msg, last_applied_thrust, last_applied_pitch, state,
                   rows, tel_idx, err, returned, polled, unreturned>>

Next ==
    \/ ClockTick
    \/ Inject
    \/ RxRecv
    \/ RxStamp
    \/ RxPut
    \/ Start
    \/ Send
    \/ PollNow
    \/ PollGet
    \/ PollPut
    \/ Apply
    \/ Save

Spec == Init /\ [][Next]_vars

TypeOK ==
    /\ pc \in {"start", "send", "poll_now", "poll_get", "poll_put", "apply", "save",
               "done", "crashed"}
    /\ rx_pc \in {"unstarted", "recv", "stamp", "put", "exited"}
    /\ i \in 0..MaxSteps
    /\ Len(rows) = i

\* ============================================ direct calls of the library
\* The functions that can be called on their own (by a test, by another
\* program) are exercised one call at a time: Init draws the arguments, the
\* action applies the function.  run_sim is not running meanwhile.
mainVars == <<cfgVars, envVars, rxVars, runVars>>

LibCfg ==
    [scenario |-> "takeoff_landing", seed |-> 123, loss_p |-> 0, latency_ms |-> 0,
     steps |-> 0]

NotRunning == cfg = LibCfg /\ AtStart

\* ------------------------------------------------ SimpleAircraft2D.step
StepStates ==
    [time_s : {0}, pos_x_m : {0}, pos_y_m : {-30, 0, 20, NaN, NegInf},
     vel_x_mps : {0, 100}, vel_y_mps : {-50, 0, 50}, pitch_deg : {0}]
StepThrusts == {0, 500, NaN}
StepPitches == {-20, 10, NaN, PosInf}
StepWinds == {-20, 0}
StepDts == {1, 2}

InitStep ==
    /\ NotRunning
    /\ call \in [op : {"step"}, st : StepStates, thrust_01 : StepThrusts,
                 pitch_deg : StepPitches, wind : StepWinds, dt : StepDts, n : {1}]
    /\ ret = NoRet

\* sim.step(state, control, env, dt_s): the new state, or math.cos's ValueError
StepCall ==
    /\ call.op = "step"
    /\ ret = NoRet
    /\ ret' = IF StepRaises(call.pitch_deg)
              THEN [kind |-> "raised", err |-> "ValueError"]
              ELSE [kind |-> "state",
                    st |-> step_dt(call.st, call.thrust_01, call.pitch_deg, call.wind,
                                   call.dt)]
    /\ UNCHANGED <<mainVars, stop_pc, call>>

\* the returned state is the next call's state
StepOn ==
    /\ call.op = "step"
    /\ ret.kind = "state"
    /\ call.n < MaxChain
    /\ \E th \in StepThrusts, p \in StepPitches, w \in StepWinds, dt \in StepDts :
         call' = [op |-> "step", st |-> ret.st, thrust_01 |-> th, pitch_deg |-> p,
                  wind |-> w, dt |-> dt, n |-> call.n + 1]
    /\ ret' = NoRet
    /\ UNCHANGED <<mainVars, stop_pc>>

NextStep == StepCall \/ StepOn

SpecStep == InitStep /\ [][NextStep]_vars

\* ------------------------------------------------------- compare_csvs
\* A CSV file on disk: missing, of zero bytes, or a header line with the
\* column names and data rows of cells aligned with them.  A cell is a
\* number, empty (read as NaN) or text that is no number (NonNum).
ColLists == {<<"a">>, <<"a", "b">>, <<"b", "a">>}
CellValues == {0, 1, NaN, NonNum}

Table(cs, rs) == [kind |-> "table", cols |-> cs, rows |-> rs]
MissingFile == [kind |-> "missing", cols |-> << >>, rows |-> << >>]
ZeroByteFile == [kind |-> "empty", cols |-> << >>, rows |-> << >>]

RowsOf(cs) ==
    UNION { [1..n -> [1..Len(cs) -> CellValues]] : n \in 0..MaxRows }

CsvFiles ==
    {MissingFile, ZeroByteFile}
      \cup UNION { { Table(cs, rs) : rs \in RowsOf(cs) } : cs \in ColLists }

\* atol and per_column_atol
NoDict == [c \in {} |-> 0]
Tolerances ==
    { [atol |-> 0, per |-> NoDict], [atol |-> 1, per |-> NoDict],
      [atol |-> 0, per |-> [c \in {"a"} |-> 1]] }

\* df[col] of the k-th column
ColumnCells(f, k) == [r \in 1..Len(f.rows) |-> f.rows[r][k]]

\* is_numeric_dtype of a column read_csv inferred: no cell is text
column_is_numeric(cells) == \A r \in DOMAIN cells : cells[r] # NonNum

Abs(x) == IF x < 0 THEN 0 - x ELSE x

\* np.allclose with the tolerance taken relative to the second argument too
allclose_rtol(g, r, atol) ==
    \A k \in DOMAIN g :
        \/ g[k] = NaN /\ r[k] = NaN
        \/ g[k] # NaN /\ r[k] # NaN /\ Abs(g[k] - r[k]) <= atol + Abs(r[k])

\* np.allclose(g, r, atol = atol, rtol = 0.0, equal_nan = True)
allclose(g, r, atol) ==
    \A k \in DOMAIN g :
        \/ g[k] = NaN /\ r[k] = NaN
        \/ g[k] # NaN /\ r[k] # NaN /\ Abs(g[k] - r[k]) <= atol

\* (g == r).all() when a column is not numeric: a number never equals text
\* and NaN equals nothing, itself included
series_equal(g, r) ==
    /\ column_is_numeric(g) = column_is_numeric(r)
    /\ \A k \in DOMAIN g : g[k] = r[k] /\ g[k] # NaN

Verdict(ok, label, col) == [kind |-> "returned", ok |-> ok, label |-> label, col |-> col]
Raised(e) == [kind |-> "raised", ok |-> FALSE, label |-> e, col |-> ""]

\* the verdict on the k-th column, "" when it agrees
column_label(golden, run, tol, k) ==
    LET col == golden.cols[k]
        g == ColumnCells(golden, k)
        r == ColumnCells(run, k)
        catol == IF col \in DOMAIN tol.per THEN tol.per[col] ELSE tol.atol
    IN  IF column_is_numeric(g) /\ column_is_numeric(r)
        THEN (IF allclose(g, r, catol) THEN "" ELSE "Deviation in column")
        ELSE (IF series_equal(g, r) THEN "" ELSE "Mismatch in column")

\* compare_csvs(golden_path, run_path, atol, per_column_atol)
compare_csvs(golden, run, tol) ==
    IF golden.kind = "missing" THEN Verdict(FALSE, "Golden missing", "")
    ELSE IF golden.kind = "empty" THEN Raised("EmptyDataError")
    ELSE IF run.kind = "missing" THEN Raised("FileNotFoundError")
    ELSE IF run.kind = "empty" THEN Raised("EmptyDataError")
    ELSE IF Len(golden.rows) = 0 THEN Verdict(TRUE, "Golden empty", "")
    ELSE IF golden.cols # run.cols THEN Verdict(FALSE, "Column mismatch", "")
    ELSE IF Len(golden.rows) # Len(run.rows) THEN Verdict(FALSE, "Row count mismatch", "")
    ELSE LET bad == {k \in DOMAIN golden.cols : column_label(golden, run, tol, k) # ""}
         IN  IF bad = {} THEN Verdict(TRUE, "OK", "")
             ELSE LET k == CHOOSE j \in bad : \A m \in bad : j <= m
                  IN  Verdict(FALSE, column_label(golden, run, tol, k), golden.cols[k])

InitCompare ==
    /\ NotRunning
    /\ call \in [op : {"compare_csvs"}, a : CsvFiles, b : CsvFiles, tol : Tolerances]
    /\ ret = NoRet

\* the two files compared in both orders
CompareCall ==
    /\ call.op = "compare_csvs"
    /\ ret = NoRet
    /\ ret' = [kind |-> "compared",
               ab |-> compare_csvs(call.a, call.b, call.tol),
               ba |-> compare_csvs(call.b, call.a, call.tol)]
    /\ UNCHANGED <<mainVars, stop_pc, call>>

NextCompare == CompareCall

SpecCompare == InitCompare /\ [][NextCompare]_vars

\* ------------------------------------------- TelemetryRecorder.record
RecordRows ==
    [time_s : {0, 1}, pos_x_m : {0, 7, Absent, NonNum}, pos_y_m : {0, NaN, Absent},
     vel_x_mps : {0, 30}, vel_y_mps : {-4}, thrust_01 : {500, NaN},
     pitch_deg : {0}, wind_x_mps : {0, -20}]
JitterStds == {-5, 0, 15}
DrawsBefore == {0, 1, 2}

InitRecord ==
    /\ NotRunning
    /\ call \in [op : {"record"}, row : RecordRows, std : JitterStds,
                 seeded : BOOLEAN, k : DrawsBefore]
    /\ ret = NoRet

RecordCall ==
    /\ call.op = "record"
    /\ ret = NoRet
    /\ LET r == record_call(call.row, call.std, call.seeded, cfg.seed, call.k)
       IN  ret' = IF record_raises(call.row, call.std, call.seeded)
                  THEN [kind |-> "raised", caller |-> call.row]
                  ELSE [kind |-> "recorded", stored |-> r.stored,
                        caller |-> r.caller]
    /\ UNCHANGED <<mainVars, stop_pc, call>>

NextRecord == RecordCall

SpecRecord == InitRecord /\ [][NextRecord]_vars

\* ------------------------------------ UdpServer start / stop, on its own
\* server = UdpServer(config); server.start(): the thread is in its loop
ServerCfgs ==
    [scenario : {"takeoff_landing"}, seed : Seeds, loss_p : LossPs,
     latency_ms : Latencies, steps : {0}]

InitShutdown ==
    /\ cfg \in ServerCfgs
    /\ clock = 0 /\ net = << >> /\ next_id = 1 /\ injected = 0
    /\ rx_pc = "recv" /\ rx_cur = NoEntry /\ rand_idx = 0 /\ pending = << >>
    /\ rx_recv_n = 0 /\ rx_bad_n = 0 /\ draws = << >> /\ inserted = {}
    /\ pc = "start" /\ i = 0 /\ now = 0 /\ held = NoEntry /\ msg = None
    /\ last_applied_thrust = 0 /\ last_applied_pitch = 0
    /\ state = initial_state /\ rows = << >> /\ tel_idx = 0 /\ file = << >>
    /\ rc = -1 /\ err = "none" /\ returned = << >> /\ polled = << >>
    /\ unreturned = << >>
    /\ stop_pc = "idle"
    /\ call = NoCall
    /\ ret = NoRet

\* a datagram reaches the bound port while the socket is open
Arrive ==
    /\ stop_pc \in {"idle", "set"}
    /\ next_id <= MaxDatagrams
    /\ \E p \in InjectedPayloads :
         net' = Append(net, [payload |-> p, id |-> next_id])
    /\ next_id' = next_id + 1
    /\ UNCHANGED <<cfg, clock, injected>>
    /\ UNCHANGED <<rxVars, runVars, apiVars>>

\* the thread is at the loop head or in recvfrom: the 0.2 s timeout brings
\* it to the loop head, the closed socket raises OSError
RxExit ==
    /\ rx_pc = "recv"
    /\ rx_leaves(stop_pc)
    /\ rx_pc' = "exited"
    /\ UNCHANGED <<cfgVars, envVars, runVars, apiVars>>
    /\ UNCHANGED <<rx_cur, rand_idx, pending, rx_recv_n, rx_bad_n, draws, inserted>>

\* stop(): self._stop.set()
StopSet ==
    /\ stop_pc = "idle"
    /\ stop_pc' = "set"
    /\ UNCHANGED <<mainVars, call, ret>>

\* stop(): self.sock.close(), an exception of which is swallowed
StopClose ==
    /\ stop_pc = "set"
    /\ stop_pc' = "closed"
    /\ UNCHANGED <<mainVars, call, ret>>

\* stop(): self._rx_thread.join(timeout=1.0) returns when the thread has
\* ended or the second has passed
StopJoin ==
    /\ stop_pc = "closed"
    /\ stop_pc' = "returned"
    /\ UNCHANGED <<mainVars, call, ret>>

Receiver == RxRecv \/ RxStamp \/ RxPut \/ RxExit

NextShutdown ==
    \/ ClockTick
    \/ Arrive
    \/ RxRecv
    \/ RxStamp
    \/ RxPut
    \/ RxExit
    \/ StopSet
    \/ StopClose
    \/ StopJoin

\* the receiver thread and the thread inside stop() are both scheduled
SpecShutdown ==
    /\ InitShutdown
    /\ [][NextShutdown]_vars
    /\ WF_vars(Receiver)
    /\ WF_vars(StopClose)
    /\ WF_vars(StopJoin)

\* ------------------------------------------------------ UdpClient.send
SendThrusts == {0, 500, 1000, NaN, NonNum}
SendPitches == {-20, 0, 10, PosInf, NonNum}

\* float(thrust_01), float(pitch_deg) and json.dumps come before the try:
\* a value float() rejects raises to the caller; NaN and the infinities are
\* encoded.  sendto is inside the try: its OSError on a closed socket is
\* swallowed.
send(thrust_01, pitch_deg, sock) ==
    IF thrust_01 = NonNum \/ pitch_deg = NonNum THEN "raised"
    ELSE IF sock = "closed" THEN "discarded"
    ELSE "sent"

\* the client's socket is open or was closed; the server's port is bound or
\* no longer is
InitSend ==
    /\ NotRunning
    /\ call \in [op : {"send"}, thrust_01 : SendThrusts, pitch_deg : SendPitches,
                 sock : {"open", "closed"}, port : {"bound", "unbound"}]
    /\ ret = NoRet

SendCall ==
    /\ call.op = "send"
    /\ ret = NoRet
    /\ LET r == send(call.thrust_01, call.pitch_deg, call.sock)
       IN  /\ ret' = [kind |-> r]
           /\ IF r = "sent" /\ call.port = "bound"
              THEN /\ net' = Append(net, [payload |-> Obj(call.thrust_01, call.pitch_deg),
                                          id |-> next_id])
                   /\ next_id' = next_id + 1
              ELSE UNCHANGED <<net, next_id>>
    /\ UNCHANGED <<cfg, clock, injected>>
    /\ UNCHANGED <<rxVars, runVars, stop_pc, call>>

NextSend == SendCall

SpecSend == InitSend /\ [][NextSend]_vars

\* ================================================================ claims
Entries(q) == {q[k] : k \in DOMAIN q}
Last(q) == q[Len(q)]

\* ---------------------------------------------------------------------
\* C1: poll_next never returns a command while an entry with a strictly
\* earlier apply-time is pending, and the commands successive poll_next
\* calls return are in non-decreasing apply-time order.  (Every entry that
\* is pending, or taken out for a put-back, at or after a return has an
\* apply-time no earlier than the returned one.)
C1_ScheduleOrder ==
    /\ \A k \in 1..(Len(returned) - 1) : returned[k].t <= returned[k + 1].t
    /\ returned # << >> =>
         /\ \A e \in Entries(pending) : Last(returned).t <= e.t
         /\ pc = "poll_put" => Last(returned).t <= held.t

\* two commands with different apply-times were returned, one more is pending
C1_Witness ==
    /\ Len(returned) >= 2
    /\ returned[1].t < returned[2].t
    /\ pending # << >>

\* ---------------------------------------------------------------------
\* C2: neutral hold.  On a tick where poll_next returned nothing the applied
\* thrust and pitch are those of the previous tick (0.0 before the first);
\* on a tick where it returned a command they are the command's; either way
\* they are the new last-applied values.
PrevApplied(k, col) == IF k = 1 THEN 0 ELSE rows[k - 1][col]

C2_NeutralHold ==
    /\ \A k \in 1..Len(rows) :
         /\ polled[k] = None =>
              /\ rows[k].thrust_01 = PrevApplied(k, "thrust_01")
              /\ rows[k].pitch_deg = PrevApplied(k, "pitch_deg")
         /\ IsCommand(polled[k]) =>
              /\ rows[k].thrust_01 = polled[k].thrust_01
              /\ rows[k].pitch_deg = polled[k].pitch_deg
    /\ rows # << >> =>
         /\ last_applied_thrust = Last(rows).thrust_01
         /\ last_applied_pitch = Last(rows).pitch_deg

\* a tick with nothing delivered that follows a tick with a delivered
\* command of non-zero thrust
C2_Witness ==
    /\ Len(rows) >= 2
    /\ IsCommand(polled[1])
    /\ polled[1].thrust_01 # 0
    /\ polled[2] = None
    /\ rows[2].thrust_01 = polled[1].thrust_01

\* ---------------------------------------------------------------------
\* C3: determinism.  Two runs with the same scenario, seed, hz and duration,
\* loss_p = 0 and latency_ms = 0 record the same applied thrust and pitch at
\* every tick, whatever the interleaving of the receiver with the run loop.
\* The run in which every command is delivered in the tick that sent it is
\* one such run (C3_LockStepRun is reachable), so all runs agree exactly
\* when every finished run equals it.
LockStepApplied ==
    \A k \in 1..Len(rows) :
        /\ rows[k].thrust_01 = control_fn(cfg.scenario, cfg.seed, k - 1).thrust
        /\ rows[k].pitch_deg = control_fn(cfg.scenario, cfg.seed, k - 1).pitch

QuietLink == cfg.loss_p = 0 /\ cfg.latency_ms = 0 /\ injected = 0

C3_Determinism == (pc = "done" /\ rc = 0 /\ QuietLink) => LockStepApplied

C3_LockStepRun ==
    /\ pc = "done" /\ rc = 0 /\ QuietLink
    /\ cfg.scenario = "takeoff_landing" /\ cfg.steps = 2
    /\ LockStepApplied

\* ---------------------------------------------------------------------
\* C4: poll_next returns at once with one command or nothing and never
\* raises an error to the run loop, whatever the pending structure holds
\* (two entries with equal apply-time included).
C4_PollNeverRaises == err # "TypeError"

\* ---------------------------------------------------------------------
\* C5: every entry the receiver inserted is returned by at most one
\* poll_next call and is pending until then (or in poll_next's hands for the
\* put-back): no entry is duplicated, no entry is lost.
Copies(q, id) == Cardinality({k \in DOMAIN q : q[k].id = id})

C5_NoLossNoDuplicate ==
    \A id \in inserted :
        Copies(pending, id) + Copies(returned, id)
          + (IF pc = "poll_put" /\ held.id = id THEN 1 ELSE 0) = 1

\* ---------------------------------------------------------------------
\* C6: poll_next(now) returns a command only if its apply-time, arrival
\* plus latency with the latency taken as at least 0, is at most now; when
\* the earliest pending entry is not yet due the call returns nothing and
\* leaves the pending structure with the entries it had.
C6_ReturnedIsDue ==
    (pc = "apply" /\ msg # None) =>
        /\ Last(returned).msg = msg
        /\ Last(returned).t <= now
        /\ Last(returned).t = Last(returned).arr + Max(0, cfg.latency_ms)

C6_PutBackStep ==
    (pc = "poll_put" /\ pc' # "poll_put") =>
        /\ pc' = "apply"
        /\ msg' = None
        /\ Len(pending') = Len(pending) + 1
        /\ Entries(pending') = Entries(pending) \cup {held}

C6_DueOnly == []C6_ReturnedIsDue /\ [][C6_PutBackStep]_vars

\* ---------------------------------------------------------------------
\* C7: for every packet physically received the receiver draws exactly one
\* value from the seeded source; a packet whose draw is below loss_p is
\* never inserted nor returned; any other packet is inserted with
\* apply-time = arrival time + latency.
Stamped ==
    Entries(pending) \cup Entries(returned)
      \cup (IF pc = "poll_put" THEN {held} ELSE {})
      \cup (IF rx_pc = "put" THEN {rx_cur} ELSE {})

InReceiver(id) == rx_pc \in {"stamp", "put"} /\ rx_cur.id = id

LossRule ==
    \A k \in DOMAIN draws :
        IF draws[k].value < cfg.loss_p
        THEN /\ draws[k].id \notin inserted
             /\ \A e \in Stamped : e.id # draws[k].id
        ELSE draws[k].id \in inserted \/ InReceiver(draws[k].id)

\* the original statement (the latency is the one C6 names, taken as at
\* least 0)
C7_OneDrawPerPacket ==
    /\ rand_idx = rx_recv_n
    /\ LossRule
    /\ \A e \in Stamped : e.t = e.arr + Max(0, cfg.latency_ms)

\* as amended: one draw for every received packet whose payload decodes as
\* JSON and none for a payload that does not decode
C7_Inv ==
    /\ rand_idx = rx_recv_n - rx_bad_n
    /\ Len(draws) = rand_idx
    /\ LossRule
    /\ \A e \in Stamped : e.t = e.arr + Max(0, cfg.latency_ms)

C7_PutStep == (rx_pc = "put" /\ rx_pc' # "put") => rx_cur \in Entries(pending')

C7_OneDrawPerDecodedPacket == []C7_Inv /\ [][C7_PutStep]_vars

\* an undecodable packet, a lost one and an inserted one, negative latency_ms
C7_Witness ==
    /\ rx_bad_n >= 1
    /\ \E k \in DOMAIN draws : draws[k].value < cfg.loss_p
    /\ \E e \in Entries(pending) : e.id \in inserted
    /\ cfg.latency_ms < 0

\* ---------------------------------------------------------------------
\* C8: a received payload that is not a well-formed command packet
\* (undecodable, not an object, or a field that is no number) is treated as
\* never received: it is never returned by poll_next, and never causes an
\* error in the run loop's tick.
Malformed(m) ==
    \/ m.kind \in {"garbage", "list"}
    \/ m.thrust_01 = NonNum
    \/ m.pitch_deg = NonNum

C8_MalformedNeverReceived ==
    /\ \A e \in Entries(returned) : ~Malformed(e.msg)
    /\ err \notin {"AttributeError", "ValueError"}

\* ---------------------------------------------------------------------
\* C9: for a known scenario and any behaviour of the channel the loop ends
\* after exactly `steps` ticks with one telemetry row per tick, then
\* finalizes once: the saved file holds `steps` data rows followed by
\* exactly one checksum row.  (Stated for the runs of at least one tick.)
C9_StepsRowsThenChecksum ==
    (cfg.scenario \in KnownScenarios /\ cfg.steps >= 1) =>
        /\ pc # "crashed"
        /\ Len(rows) <= cfg.steps
        /\ pc \in {"save", "done"} => Len(rows) = cfg.steps
        /\ pc = "done" =>
             /\ Len(file) = cfg.steps + 1
             /\ SubSeq(file, 1, cfg.steps) = rows
             /\ Last(file).time_s = -1

\* ---------------------------------------------------------------------
\* C10: for every run that recorded at least one row the saved file's last
\* row is the checksum row: time_s = -1.0, every other numeric column the
\* sum of the column over the data rows with non-finite values counted as
\* zero, every non-numeric column the last data row's value; no other row
\* has time_s = -1.0.
Saved == pc = "done" /\ rc = 0 /\ rows # << >>

ZeroNonFinite(x) == IF x \in {NaN, PosInf, NegInf} THEN 0 ELSE x
Finitized(x) ==
    IF x = NaN THEN 0 ELSE IF x = PosInf THEN FMax ELSE IF x = NegInf THEN 0 - FMax ELSE x

\* the sum, over the data rows f[1..n], of column col with non-finite values as zero
RECURSIVE SumZeroed(_, _, _)
SumZeroed(f, col, n) ==
    IF n = 0 THEN 0 ELSE SumZeroed(f, col, n - 1) + ZeroNonFinite(f[n][col])

\* the float sum with NaN as zero and an infinity as the largest finite
\* float of its sign
RECURSIVE SumFinitized(_, _, _)
SumFinitized(f, col, n) ==
    IF n = 0 THEN 0 ELSE FAdd(SumFinitized(f, col, n - 1), Finitized(f[n][col]))

ChecksumRowShape ==
    /\ Len(file) = Len(rows) + 1
    /\ Last(file).time_s = -1
    /\ \A k \in 1..(Len(file) - 1) : file[k].time_s # -1
    /\ \A c \in Columns \ {"time_s"} :
         ~is_numeric_dtype(rows, c) => Last(file)[c] = file[Len(file) - 1][c]

\* the original statement
C10_ChecksumZeroesNonFinite ==
    Saved =>
        /\ ChecksumRowShape
        /\ \A c \in Columns \ {"time_s"} :
             Last(file)[c] = SumZeroed(file, c, Len(file) - 1)

\* as amended: NaN counts as zero, +inf and -inf as the largest finite
\* float of their sign
C10_ChecksumNanToNum ==
    Saved =>
        /\ ChecksumRowShape
        /\ \A c \in Columns \ {"time_s"} :
             Last(file)[c] = SumFinitized(file, c, Len(file) - 1)

\* a saved run of two ticks with an infinite applied thrust
C10_Witness ==
    /\ Saved
    /\ Len(rows) = 2
    /\ \E k \in 1..2 : rows[k].thrust_01 = PosInf
    /\ Last(file).thrust_01 >= FMax

\* ---------------------------------------------------------------------
\* C11: altitude ground clamp.  For every state (a negative, NaN or infinite
\* altitude included), control input, wind and dt_s > 0 the state step
\* returns has pos_y_m >= 0, and so has every state a chain of steps reaches.
C11_GroundClamp ==
    (call.op = "step" /\ ret.kind = "state") =>
        /\ ret.st.pos_y_m \notin {NaN, NegInf}
        /\ ret.st.pos_y_m >= 0

\* a step whose unclamped altitude would be below the ground, and a second
\* step from a state the first one returned
C11_Witness ==
    /\ call.op = "step" /\ ret.kind = "state"
    /\ call.n = 2
    /\ call.st.pos_y_m = 0
    /\ call.st.vel_y_mps * call.dt < 0
    /\ ret.st.pos_y_m = 0

\* ---------------------------------------------------------------------
\* C12: compare_csvs with a golden file that has no data rows returns pass
\* for every run file, one with other columns, no rows or no content at all
\* included.
NoDataRows(f) == f.kind = "table" /\ f.rows = << >>
HasDataRows(f) == f.kind = "table" /\ f.rows # << >>
Passes(v) == v.kind = "returned" /\ v.ok

C12_EmptyGoldenPasses ==
    (ret.kind = "compared" /\ NoDataRows(call.a) /\ call.b.kind # "missing")
        => Passes(ret.ab)

\* ---------------------------------------------------------------------
\* C13: for a golden file with data rows, compare_csvs returns a failure
\* labelled column mismatch whenever the two column sets differ, a failure
\* labelled row-count mismatch whenever the column sets are equal and the
\* row counts differ, and never a column mismatch for equal column sets.
ColumnSet(f) == {f.cols[k] : k \in DOMAIN f.cols}
Labelled(v, label) == v.kind = "returned" /\ ~v.ok /\ v.label = label

C13_MismatchLabels ==
    (ret.kind = "compared" /\ HasDataRows(call.a) /\ call.b.kind = "table") =>
        /\ ColumnSet(call.a) # ColumnSet(call.b) => Labelled(ret.ab, "Column mismatch")
        /\ (ColumnSet(call.a) = ColumnSet(call.b) /\ Len(call.a.rows) # Len(call.b.rows))
             => Labelled(ret.ab, "Row count mismatch")
        /\ ColumnSet(call.a) = ColumnSet(call.b) => ~Labelled(ret.ab, "Column mismatch")

\* ---------------------------------------------------------------------
\* C14: the comparison is symmetric: for every pair of files and every
\* tolerance setting compare_csvs(A, B) passes exactly when
\* compare_csvs(B, A) passes.
Symmetric == Passes(ret.ab) <=> Passes(ret.ba)

\* the original statement
C14_Symmetric == ret.kind = "compared" => Symmetric

\* as amended: unless one of the two files has no data rows and the other
\* has some
C14_SymmetricBetweenAlike ==
    (/\ ret.kind = "compared"
     /\ ~(NoDataRows(call.a) /\ HasDataRows(call.b))
     /\ ~(NoDataRows(call.b) /\ HasDataRows(call.a))) => Symmetric

\* two files with data rows that differ by no more than the tolerance of a
\* column the per-column setting names, and pass in both orders
C14_Witness ==
    /\ ret.kind = "compared"
    /\ HasDataRows(call.a) /\ HasDataRows(call.b)
    /\ call.a # call.b
    /\ call.tol.per # NoDict
    /\ Passes(ret.ab) /\ Passes(ret.ba)

\* ---------------------------------------------------------------------
\* C15: given an unknown scenario name run_sim returns a non-zero status and
\* the simulation does not start: the only step of such a run is the return
\* of the status; no receiver is started, no command is sent, no tick is
\* executed and no telemetry file is written.
C15_ReturnStep ==
    cfg.scenario \notin KnownScenarios =>
        /\ pc = "start" /\ pc' = "done"
        /\ rc' # 0 /\ rc' # -1
        /\ UNCHANGED <<cfgVars, envVars, rxVars, stop_pc>>
        /\ UNCHANGED <<i, state, rows, tel_idx, file, err, returned, polled, unreturned>>

C15_UnknownScenario == [][C15_ReturnStep]_vars

\* run_sim has returned 2 for a scenario it does not know
C15_Witness ==
    /\ cfg.scenario \notin KnownScenarios
    /\ pc = "done"
    /\ rc = 2
    /\ rx_pc = "unstarted" /\ net = << >> /\ rows = << >>

\* ---------------------------------------------------------------------
\* C16: record changes only position.  For every row and jitter setting the
\* stored row's fields other than pos_x_m and pos_y_m equal the values passed
\* in, the caller's row is left as it was, and with jitter standard deviation
\* 0 the stored row equals the row passed in.
C16_RecordFrame ==
    ret.kind = "recorded" =>
        /\ \A c \in Columns \ {"pos_x_m", "pos_y_m"} : ret.stored[c] = call.row[c]
        /\ ret.caller = call.row
        /\ call.std = 0 => ret.stored = call.row

\* a call that did jitter both positions
C16_Witness ==
    /\ ret.kind = "recorded"
    /\ call.std > 0 /\ call.seeded
    /\ ret.stored["pos_x_m"] # call.row["pos_x_m"]
    /\ ret.stored["pos_y_m"] # call.row["pos_y_m"]

\* ---------------------------------------------------------------------
\* C17: shutdown.  Once stop() has been called on a started receiver the
\* receive loop eventually terminates, whether it was waiting for a packet
\* or processing one, and stop() eventually returns; a terminated receiver
\* stays terminated and inserts no further entry.
C17_NoInsertAfterExit ==
    rx_pc = "exited" => (rx_pc' = "exited" /\ pending' = pending /\ inserted' = inserted)

C17_Shutdown ==
    /\ (stop_pc # "idle") ~> (rx_pc = "exited")
    /\ (stop_pc # "idle") ~> (stop_pc = "returned")
    /\ [][C17_NoInsertAfterExit]_vars

\* stop() has returned and the loop has ended, with an entry inserted
\* before the end and a datagram left unread in the buffer
C17_Witness ==
    /\ stop_pc = "returned"
    /\ rx_pc = "exited"
    /\ pending # << >>
    /\ net # << >>

\* ---------------------------------------------------------------------
\* C18: send never raises to the caller: a packet that cannot be encoded or
\* cannot be sent is discarded without an exception, and nothing reaches the
\* server's socket.
C18_SendNeverRaises ==
    ret.kind \in {"sent", "discarded", "raised"} =>
        /\ ret.kind # "raised"
        /\ (call.sock = "closed" \/ NonNum \in {call.thrust_01, call.pitch_deg})
              => net = << >>

\* ---------------------------------------------------------------------
\* C19: the receiver's lifetime is scoped to one run.  On every exit of
\* run_sim taken after the receiver was started (completion, or an error
\* during the run) stop() has been called and has returned.
C19_ReceiverStopped ==
    (pc \in {"done", "crashed"} /\ rx_pc # "unstarted") => stop_pc = "returned"

\* ---------------------------------------------------------------------
\* C20: each poll_next call removes at most one entry from the pending
\* structure; when entries are due at the time of the poll, the call
\* returns the earliest-scheduled of them and the others stay pending.
DueEntries == {e \in Entries(pending) : e.t <= now}

C20_PollStep ==
    (pc = "poll_get" /\ pc' # "poll_get") =>
        /\ Len(pending') >= Len(pending) - 1
        /\ DueEntries # {} =>
              /\ pc' = "apply"
              /\ Len(returned') = Len(returned) + 1
              /\ Last(returned') \in DueEntries
              /\ \A d \in DueEntries : Last(returned').t <= d.t
              /\ msg' = Last(returned').msg
              /\ Entries(pending') = Entries(pending) \ {Last(returned')}
              /\ Len(pending') = Len(pending) - 1

C20_OnePerPoll == [][C20_PollStep]_vars

\* ---------------------------------------------------------------------
\* C21: when a delivered command lacks thrust_01 or pitch_deg, the run loop
\* applies the previously applied value for the missing field and the
\* delivered value for the field that is present.
LacksField(m) == m.kind = "object" /\ Absent \in {m.thrust_01, m.pitch_deg}

C21_ApplyStep ==
    (pc = "apply" /\ pc' # "apply" /\ LacksField(msg)) =>
        /\ pc' # "crashed"
        /\ last_applied_thrust' =
              (IF msg.thrust_01 = Absent THEN last_applied_thrust ELSE msg.thrust_01)
        /\ last_applied_pitch' =
              (IF msg.pitch_deg = Absent THEN last_applied_pitch ELSE msg.pitch_deg)
        /\ Last(rows').thrust_01 = last_applied_thrust'
        /\ Last(rows').pitch_deg = last_applied_pitch'

C21_MissingFieldDefaults == [][C21_ApplyStep]_vars

\* ---------------------------------------------------------------------
\* C22: in a run with loss_p = 0 the number of commands sent but not yet
\* returned by poll_next never decreases from the end of one tick to the end
\* of the next, and a command applied at tick k was generated at least as
\* many ticks earlier as commands were unreturned at the end of tick k - 1.
UnreturnedBefore(k) == IF k = 1 THEN 0 ELSE unreturned[k - 1]

C22_LagNeverDecreases ==
    cfg.loss_p = 0 =>
        /\ Len(unreturned) = Len(rows)
        /\ \A k \in 1..Len(unreturned) : unreturned[k] >= UnreturnedBefore(k)
        /\ \A k \in 1..Len(polled) :
             \A g \in GenTicks(polled[k]) :
                Cardinality(GenTicks(polled[k])) = 1 => k - g >= UnreturnedBefore(k)

\* the first poll missed its command, and the second tick applied the
\* command of the first: a lag of one tick that stays
C22_Witness ==
    /\ cfg.loss_p = 0
    /\ Len(unreturned) = 2
    /\ unreturned[1] = 1
    /\ unreturned[2] = 1
    /\ GenTicks(polled[2]) = {1}

====
